---- MODULE Spec2Model ----
(***************************************************************************)
(* Model of the two parsers of Project-Madome/Synchronizer:                *)
(*   src/src/parser/nozomi.rs   Nozomi  (binary index decoder)             *)
(*   src/src/parser/gallery.rs  Gallery (HTML metadata extractor)          *)
(* One parser instance is followed through its lifecycle                   *)
(* new -> request -> parse, together with the remote resources it reads.   *)
(***************************************************************************)
EXTENDS Integers, Sequences, FiniteSets

VARIABLES
    kind,          \* "Nozomi" or "Gallery": the concrete type of the instance
    alive,         \* FALSE once self was moved into request() and dropped
    page,          \* Nozomi.page
    per_page,      \* Nozomi.per_page
    request_data,  \* Option<Box<RequestData>> of the instance
    index,         \* remote: bytes of index-{language}.nozomi
    redirect,      \* remote: shape of the body of galleries/{id}.html
    content,       \* remote: DOM of the canonical gallery page
    lastOp,        \* last event: [op, arg]
    result,        \* value returned by the last operation on the instance
    sent,          \* HTTP requests issued by the last operation
    requests       \* number of request() calls that succeeded on the instance

vars == <<kind, alive, page, per_page, request_data, index, redirect, content,
          lastOp, result, sent, requests>>

(***************************************************************************)
(* Bounds                                                                  *)
(***************************************************************************)
MaxPage == 2
MaxPerPage == 2
MaxIndexLen == 8
MaxRows == 2
MaxNodes == 2
MaxItems == 2
MaxRequests == 2
\* width of usize in the model; the arithmetic of request() is taken modulo
\* 2^UsizeBits
UsizeBits == 16

ByteVals == {0, 255}

BSeq(S, n) == UNION {[1..k -> S] : k \in 0..n}

(***************************************************************************)
(* Option and Result values                                                *)
(***************************************************************************)
None == [some |-> FALSE, v |-> <<>>]
Some(x) == [some |-> TRUE, v |-> x]

Ok(x) == [tag |-> "Ok", v |-> x]
Err(e) == [tag |-> "Err", v |-> e]
Panic(line) == [tag |-> "Panic", v |-> line]

NotFetched == Err("Can't get request_data")
NetworkError == Err("reqwest::Error")

Event(o, a) == [op |-> o, arg |-> a]

(***************************************************************************)
(* Parser::request_data (both impls are the same match)                    *)
(***************************************************************************)
RequestData(rd) == IF rd.some THEN Ok(rd.v) ELSE NotFetched

(***************************************************************************)
(* Nozomi                                                                  *)
(***************************************************************************)
UsizeMod == 2 ^ UsizeBits

\* usize subtraction: overflow panics in a build with overflow checks and
\* wraps in a build without them.
SubOutcomes(a, b) ==
    IF a >= b THEN {[panic |-> FALSE, v |-> a - b]}
    ELSE {[panic |-> TRUE, v |-> 0], [panic |-> FALSE, v |-> (a - b) % UsizeMod]}

StartBytes(pm1, pp) == (pm1 * pp * 4) % UsizeMod

EndBytesUnscaled(start, pp) == SubOutcomes((start + pp) % UsizeMod, 1)

EndBytes(start, pp) == SubOutcomes((start + pp * 4) % UsizeMod, 1)

\* The outcomes of the range computation of request(): a panic, or start and end.
RangeOutcomes(p, pp) ==
    UNION { IF a.panic THEN {[panic |-> TRUE, start |-> 0, end |-> 0]}
            ELSE { [panic |-> e.panic,
                    start |-> IF e.panic THEN 0 ELSE StartBytes(a.v, pp),
                    end |-> e.v]
                   : e \in EndBytes(StartBytes(a.v, pp), pp) }
          : a \in SubOutcomes(p, 1) }

\* Body of the response to "Range: bytes=start-end": the bytes of the file at
\* the 0-based offsets start..end that exist.
RangeResponse(file, start, end) ==
    IF start >= Len(file) THEN <<>>
    ELSE SubSeq(file, start + 1, (IF end < Len(file) THEN end ELSE Len(file) - 1) + 1)

\* request_data.get(k) with a 0-based k
Get(b, k) == IF k < Len(b) THEN Some(b[k + 1]) ELSE None

\* Outcome of the inner loop when a byte is missing (break 'a)
Break == [tag |-> "Break", v |-> 0]

\* The inner loop (for j in 0..3) at record offset i, from step j with the
\* accumulator temp; (u8 as i32) << (j << 3) is a multiplication by 2^(8j) and
\* the sum of three such terms stays below 2^24, so i32 never overflows.
RECURSIVE InnerLoopIndexed(_, _, _, _)
InnerLoopIndexed(b, i, j, temp) ==
    IF j = 3 THEN Ok(temp)
    ELSE IF i + (3 - j) < Len(b)
         THEN InnerLoopIndexed(b, i, j + 1, temp + b[i + (3 - j) + 1] * (2 ^ (j * 8)))
         ELSE Panic("index out of bounds")

RECURSIVE InnerLoopShiftByJ(_, _, _, _)
InnerLoopShiftByJ(b, i, j, temp) ==
    IF j = 3 THEN Ok(temp)
    ELSE LET a == Get(b, i + (3 - j))
         IN IF a.some
            THEN InnerLoopShiftByJ(b, i, j + 1, temp + a.v * (2 ^ j))
            ELSE Break

RECURSIVE InnerLoop(_, _, _, _)
InnerLoop(b, i, j, temp) ==
    IF j = 3 THEN Ok(temp)
    ELSE LET a == Get(b, i + (3 - j))
         IN IF a.some
            THEN InnerLoop(b, i, j + 1, temp + a.v * (2 ^ (j * 8)))
            ELSE Break

\* The outer loop (for i in (0..len).step_by(4)) collecting res.
RECURSIVE OuterLoop(_, _, _)
OuterLoop(b, i, res) ==
    IF i >= Len(b) THEN Ok(res)
    ELSE LET t == InnerLoop(b, i, 0, 0)
         IN IF t.tag = "Ok" THEN OuterLoop(b, i + 4, Append(res, t.v))
            ELSE IF t.tag = "Panic" THEN t
            ELSE Ok(res)

\* res.sort_by(|a, b| b.cmp(a)): insertion into a descending sequence
RECURSIVE InsertDesc(_, _)
InsertDesc(x, s) ==
    IF s = <<>> THEN <<x>>
    ELSE IF x >= Head(s) THEN <<x>> \o s
    ELSE <<Head(s)>> \o InsertDesc(x, Tail(s))

RECURSIVE SortDesc(_)
SortDesc(s) == IF s = <<>> THEN <<>> ELSE InsertDesc(Head(s), SortDesc(Tail(s)))

\* Nozomi::parse on the option held by the instance
NozomiParseDataUnchecked(rd) ==
    LET r == OuterLoop(rd.v, 0, <<>>)
    IN IF r.tag = "Ok" THEN Ok(SortDesc(r.v)) ELSE r

NozomiParseData(rd) ==
    LET d == RequestData(rd)
    IN IF d.tag # "Ok" THEN d
       ELSE LET r == OuterLoop(d.v, 0, <<>>)
            IN IF r.tag = "Ok" THEN Ok(SortDesc(r.v)) ELSE r

(***************************************************************************)
(* Gallery: text and DOM                                                   *)
(* A string is a sequence of characters.  An element (a td) is the         *)
(* sequence of its child nodes: a text node, or a ul whose items are li    *)
(* elements; an li is the sequence of its text nodes.  The DOM stands for  *)
(* what Html::parse_document builds from the stored HTML text.             *)
(***************************************************************************)
NA == <<"N", "/", "A">>
NAPadded == <<"\n", "N", "/", "A", " ">>
Blank == <<"\n", " ">>
NameA == <<"a">>

IsWhitespace(c) == c \in {" ", "\n", "\t", "\r"}

RECURSIVE TrimStart(_)
TrimStart(s) ==
    IF s = <<>> THEN s
    ELSE IF IsWhitespace(Head(s)) THEN TrimStart(Tail(s)) ELSE s

RECURSIVE TrimEnd(_)
TrimEnd(s) ==
    IF s = <<>> THEN s
    ELSE IF IsWhitespace(s[Len(s)]) THEN TrimEnd(SubSeq(s, 1, Len(s) - 1)) ELSE s

\* str::trim
Trim(s) == TrimEnd(TrimStart(s))

TextNode(t) == [tag |-> "text", s |-> t, items |-> <<>>]
UlNode(lis) == [tag |-> "ul", s |-> <<>>, items |-> lis]

RECURSIVE Flatten(_)
Flatten(ss) == IF ss = <<>> THEN <<>> ELSE Head(ss) \o Flatten(Tail(ss))

NodeText(n) == IF n.tag = "text" THEN <<n.s>> ELSE Flatten(n.items)

\* element.text(): the descendant text nodes of an element in document order
ElementText(element) == Flatten([i \in 1..Len(element) |-> NodeText(element[i])])

\* Metadata::as_str of the field tags used as row labels
AsStr(metadata_type) ==
    CASE metadata_type = "Characters" -> <<"C", "h", "a", "r", "a", "c", "t", "e", "r", "s">>
      [] metadata_type = "Groups" -> <<"G", "r", "o", "u", "p", "s">>
      [] OTHER -> <<"T", "a", "g", "s">>

\* Metadata::<variant>(value)
Metadata(metadata_type, value) == [field |-> metadata_type, value |-> value]

\* element.text().next().unwrap().trim() == "N/A"
IsNothingUntrimmed(element) ==
    LET t == ElementText(element)
    IN IF t = <<>> THEN Panic("gallery.rs:41 unwrap on None") ELSE Ok(Head(t) = NA)

IsNothing(element) ==
    LET t == ElementText(element)
    IN IF t = <<>> THEN Panic("gallery.rs:41 unwrap on None") ELSE Ok(Trim(Head(t)) = NA)

\* element.select(ul).next(): the first ul of the element
RECURSIVE FirstUl(_)
FirstUl(element) ==
    IF element = <<>> THEN None
    ELSE IF Head(element).tag = "ul" THEN Some(Head(element))
    ELSE FirstUl(Tail(element))

\* .map(|element| element.text().next().unwrap().to_string()).collect()
RECURSIVE CollectItems(_, _)
CollectItems(lis, acc) ==
    IF lis = <<>> THEN Ok(acc)
    ELSE IF Head(lis) = <<>> THEN Panic("gallery.rs:53 unwrap on None")
    ELSE CollectItems(Tail(lis), Append(acc, Head(Head(lis))))

ParseMultipleMetadata(element) ==
    LET ul == FirstUl(element)
    IN IF ~ul.some THEN Panic("gallery.rs:51 unwrap on None")
       ELSE CollectItems(ul.v.items, <<>>)

ParseCharacters(element) ==
    LET characters == ParseMultipleMetadata(element)
    IN IF characters.tag # "Ok" THEN characters
       ELSE IF characters.v = <<>> THEN Ok(None)
       ELSE Ok(Some(characters.v))

ParseGroups(element) ==
    LET nothing == IsNothing(element)
    IN IF nothing.tag # "Ok" THEN nothing
       ELSE IF nothing.v THEN Ok(None)
       ELSE LET groups == ParseMultipleMetadata(element)
            IN IF groups.tag # "Ok" THEN groups ELSE Ok(Some(groups.v))

\* .select(tr).find(|element| first td's first text == metadata_type.as_str())
RECURSIVE FindRow(_, _)
FindRow(rows, label) ==
    IF rows = <<>> THEN Ok(None)
    ELSE IF Head(rows) = <<>> THEN Panic("gallery.rs:88 unwrap on None")
    ELSE IF ElementText(Head(rows)[1]) = <<>> THEN Panic("gallery.rs:90 unwrap on None")
    ELSE IF Head(ElementText(Head(rows)[1])) = label THEN Ok(Some(Head(rows)))
    ELSE FindRow(Tail(rows), label)

\* Gallery::parse_metadata
ParseMetadata(document, metadata_type) ==
    IF ~document.table THEN Panic("gallery.rs:85 unwrap on None")
    ELSE LET tr == FindRow(document.rows, AsStr(metadata_type))
         IN IF tr.tag # "Ok" THEN tr
            ELSE IF ~tr.v.some THEN Panic("gallery.rs:92 unwrap on None")
            ELSE IF Len(tr.v.v) < 2 THEN Panic("gallery.rs:95 unwrap on None")
            ELSE LET r == tr.v.v[2]
                 IN CASE metadata_type = "Characters" ->
                           LET c == ParseCharacters(r)
                           IN IF c.tag # "Ok" THEN c ELSE Ok(Metadata("Characters", c.v))
                      [] metadata_type = "Groups" ->
                           LET g == ParseGroups(r)
                           IN IF g.tag # "Ok" THEN g ELSE Ok(Metadata("Groups", g.v))
                      [] OTHER -> Ok(Metadata(metadata_type, None))

\* The MetadataBook built by Gallery::parse
MetadataBook(characters, groups) ==
    [characters |-> characters,
     groups |-> groups,
     id |-> Metadata("ID", None),
     title |-> Metadata("Title", None),
     artists |-> Metadata("Artists", None),
     series |-> Metadata("Series", None),
     tags |-> Metadata("Tags", None),
     language |-> Metadata("Language", None),
     content_type |-> Metadata("ContentType", None),
     created_at |-> Metadata("CreatedAt", None),
     thumbnail_url |-> Metadata("ThumbnailURL", None)]

\* Gallery::parse on the option held by the instance
GalleryParseData(rd) ==
    LET d == RequestData(rd)
    IN IF d.tag # "Ok" THEN d
       ELSE LET characters == ParseMetadata(d.v, "Characters")
            IN IF characters.tag # "Ok" THEN characters
               ELSE LET groups == ParseMetadata(d.v, "Groups")
                    IN IF groups.tag # "Ok" THEN groups
                       ELSE Ok(MetadataBook(characters.v, groups.v))

\* The tests' sequence: Html::parse_document(request_data()?) then parse_metadata
GalleryFieldData(rd, metadata_type) ==
    LET d == RequestData(rd)
    IN IF d.tag # "Ok" THEN d ELSE ParseMetadata(d.v, metadata_type)

\* Gallery::url once the redirect page was received
ContentUrl(body) ==
    CASE body = "no_anchor" -> Panic("gallery.rs:132 unwrap on None")
      [] body = "no_href" -> Panic("gallery.rs:137 expect on None")
      [] OTHER -> Ok("content_url")

(***************************************************************************)
(* Remote resources the instance may be served                             *)
(***************************************************************************)
Indexes == BSeq(ByteVals, MaxIndexLen)

RedirectBodies == {"anchor", "no_href", "no_anchor"}

Document(table, rows) == [table |-> table, rows |-> rows]

NoTable == Document(FALSE, <<>>)

Texts == {Blank, NAPadded}
Lis == {<<>>, <<NameA>>, <<NA>>}
Nodes == {TextNode(t) : t \in Texts} \cup {UlNode(l) : l \in BSeq(Lis, MaxItems)}

\* value cells of the field-level specification
Regions == BSeq(Nodes, MaxNodes)

\* value cells of the lifecycle specification: the sentinel, a one-item list,
\* an empty list after white space
SampleRegions ==
    { <<TextNode(NAPadded)>>,
      <<UlNode(<< <<NameA>> >>)>>,
      <<TextNode(Blank), UlNode(<<>>)>> }

LabelCell(metadata_type) == <<TextNode(AsStr(metadata_type))>>

\* rows: no cell; a label cell alone (with or without text); a label and a value
Rows == {<<>>, << <<>> >>, <<LabelCell("Tags")>>, <<LabelCell("Tags"), <<>> >>}
           \cup {<<LabelCell(t), r>> : t \in {"Characters", "Groups"}, r \in SampleRegions}

Documents == {NoTable} \cup {Document(TRUE, rs) : rs \in BSeq(Rows, MaxRows)}

MetadataTypes == {"Characters", "Groups", "Tags"}

(***************************************************************************)
(* Lifecycle                                                               *)
(***************************************************************************)
\* Nozomi::new / Gallery::new against some state of the remote site
Init ==
    /\ alive = TRUE
    /\ request_data = None
    /\ lastOp = Event("new", "")
    /\ result = Ok("Self")
    /\ sent = 0
    /\ requests = 0
    /\ \/ /\ kind = "Nozomi"
          /\ page \in 0..MaxPage
          /\ per_page \in 0..MaxPerPage
          /\ index \in Indexes
          /\ redirect = "anchor"
          /\ content = NoTable
       \/ /\ kind = "Gallery"
          /\ page = 1
          /\ per_page = 1
          /\ index = <<>>
          /\ redirect \in RedirectBodies
          /\ content \in (IF redirect = "anchor" THEN Documents ELSE {NoTable})

Params == <<kind, page, per_page>>
Remote == <<index, redirect, content>>

\* Nozomi::url (the address depends on the language only; index stands for
\* the file of that language)
NozomiUrl ==
    /\ kind = "Nozomi" /\ alive
    /\ lastOp' = Event("url", "")
    /\ result' = Ok("index_url")
    /\ sent' = 0
    /\ UNCHANGED <<Params, Remote, alive, request_data, requests>>

\* Nozomi::request_data
NozomiRequestData ==
    /\ kind = "Nozomi" /\ alive
    /\ lastOp' = Event("request_data", "")
    /\ result' = RequestData(request_data)
    /\ sent' = 0
    /\ UNCHANGED <<Params, Remote, alive, request_data, requests>>

\* Nozomi::request: self is moved in; it comes back only in Ok
NozomiRequest ==
    /\ kind = "Nozomi" /\ alive /\ requests < MaxRequests
    /\ lastOp' = Event("request", "")
    /\ \E range \in RangeOutcomes(page, per_page), netOk \in BOOLEAN :
          IF range.panic
          THEN /\ result' = Panic("attempt to subtract with overflow")
               /\ sent' = 0
               /\ alive' = FALSE
               /\ UNCHANGED <<request_data, requests>>
          ELSE IF ~netOk
          THEN /\ result' = NetworkError
               /\ sent' = 1
               /\ alive' = FALSE
               /\ UNCHANGED <<request_data, requests>>
          ELSE /\ request_data' = Some(RangeResponse(index, range.start, range.end))
               /\ result' = Ok("Box<Self>")
               /\ sent' = 1
               /\ requests' = requests + 1
               /\ UNCHANGED alive
    /\ UNCHANGED <<Params, Remote>>

NozomiParseDrains ==
    /\ kind = "Nozomi" /\ alive
    /\ lastOp' = Event("parse", "")
    /\ result' = NozomiParseData(request_data)
    /\ sent' = 0
    /\ request_data' = IF request_data.some THEN Some(<<>>) ELSE request_data
    /\ UNCHANGED <<Params, Remote, alive, requests>>

\* Nozomi::parse
NozomiParse ==
    /\ kind = "Nozomi" /\ alive
    /\ lastOp' = Event("parse", "")
    /\ result' = NozomiParseData(request_data)
    /\ sent' = 0
    /\ UNCHANGED <<Params, Remote, alive, request_data, requests>>

\* The site publishes a record at the front of the index
RemotePublish ==
    /\ kind = "Nozomi" /\ alive
    /\ Len(index) + 4 <= MaxIndexLen
    /\ \E rec \in [1..4 -> ByteVals] : index' = rec \o index
    /\ lastOp' = Event("remote", "")
    /\ UNCHANGED <<Params, redirect, content, alive, request_data, result, sent, requests>>

\* Gallery::url
GalleryUrl ==
    /\ kind = "Gallery" /\ alive
    /\ lastOp' = Event("url", "")
    /\ sent' = 1
    /\ \E netOk \in BOOLEAN :
          result' = IF netOk THEN ContentUrl(redirect) ELSE NetworkError
    /\ UNCHANGED <<Params, Remote, alive, request_data, requests>>

GalleryRequestDataTakes ==
    /\ kind = "Gallery" /\ alive
    /\ lastOp' = Event("request_data", "")
    /\ result' = RequestData(request_data)
    /\ sent' = 0
    /\ request_data' = None
    /\ UNCHANGED <<Params, Remote, alive, requests>>

\* Gallery::request_data
GalleryRequestData ==
    /\ kind = "Gallery" /\ alive
    /\ lastOp' = Event("request_data", "")
    /\ result' = RequestData(request_data)
    /\ sent' = 0
    /\ UNCHANGED <<Params, Remote, alive, request_data, requests>>

\* Gallery::request: self is moved in; it comes back only in Ok
GalleryRequest ==
    /\ kind = "Gallery" /\ alive /\ requests < MaxRequests
    /\ lastOp' = Event("request", "")
    /\ \E urlOk \in BOOLEAN, netOk \in BOOLEAN :
          LET content_url == IF urlOk THEN ContentUrl(redirect) ELSE NetworkError
          IN IF content_url.tag # "Ok"
             THEN /\ result' = content_url
                  /\ sent' = 1
                  /\ alive' = FALSE
                  /\ UNCHANGED <<request_data, requests>>
             ELSE IF ~netOk
             THEN /\ result' = NetworkError
                  /\ sent' = 2
                  /\ alive' = FALSE
                  /\ UNCHANGED <<request_data, requests>>
             ELSE /\ request_data' = Some(content)
                  /\ result' = Ok("Box<Self>")
                  /\ sent' = 2
                  /\ requests' = requests + 1
                  /\ UNCHANGED alive
    /\ UNCHANGED <<Params, Remote>>

\* Gallery::parse
GalleryParse ==
    /\ kind = "Gallery" /\ alive
    /\ lastOp' = Event("parse", "")
    /\ result' = GalleryParseData(request_data)
    /\ sent' = 0
    /\ UNCHANGED <<Params, Remote, alive, request_data, requests>>

\* Gallery::parse_metadata on the document of the stored payload
GalleryParseMetadata(metadata_type) ==
    /\ kind = "Gallery" /\ alive
    /\ lastOp' = Event("parse_metadata", metadata_type)
    /\ result' = GalleryFieldData(request_data, metadata_type)
    /\ sent' = 0
    /\ UNCHANGED <<Params, Remote, alive, request_data, requests>>

\* The site changes the gallery page: the last row of the table goes, then the table
RemoteRedesign ==
    /\ kind = "Gallery" /\ alive
    /\ content.table
    /\ content' = IF content.rows = <<>> THEN NoTable
                  ELSE Document(TRUE, SubSeq(content.rows, 1, Len(content.rows) - 1))
    /\ lastOp' = Event("remote", "")
    /\ UNCHANGED <<Params, index, redirect, alive, request_data, result, sent, requests>>

Next ==
    \/ NozomiUrl
    \/ NozomiRequestData
    \/ NozomiRequest
    \/ NozomiParse
    \/ RemotePublish
    \/ GalleryUrl
    \/ GalleryRequestData
    \/ GalleryRequest
    \/ GalleryParse
    \/ \E metadata_type \in MetadataTypes : GalleryParseMetadata(metadata_type)
    \/ RemoteRedesign

Spec == Init /\ [][Next]_vars

(***************************************************************************)
(* Field-level specification: a fetched Gallery whose page has one row,    *)
(* labelled Characters or Groups, with any value region.                   *)
(***************************************************************************)
InitFields ==
    /\ kind = "Gallery"
    /\ alive = TRUE
    /\ page = 1
    /\ per_page = 1
    /\ index = <<>>
    /\ redirect = "anchor"
    /\ \E t \in {"Characters", "Groups"}, r \in Regions :
          /\ content = Document(TRUE, << <<LabelCell(t), r>> >>)
          /\ request_data = Some(content)
    /\ lastOp = Event("request", "")
    /\ result = Ok("Box<Self>")
    /\ sent = 2
    /\ requests = 1

NextFields ==
    \/ GalleryRequestData
    \/ GalleryParse
    \/ \E metadata_type \in MetadataTypes : GalleryParseMetadata(metadata_type)

SpecFields == InitFields /\ [][NextFields]_vars

(***************************************************************************)
(* Properties                                                              *)
(***************************************************************************)

\* C1: on an instance whose payload slot is absent, parse() and request_data()
\* return the not-fetched error and leave the slot absent (Gallery and Nozomi).
C1_NotFetchedError ==
    [][ (~request_data.some /\ lastOp'.op \in {"parse", "request_data"})
        => (/\ result'.tag = "Err"
            /\ result'.v = NotFetched.v
            /\ request_data' = None) ]_vars

C1_Witness ==
    /\ kind = "Gallery"
    /\ lastOp.op = "parse"
    /\ ~request_data.some
    /\ result.tag = "Err"

\* C2 as stated: the payload slot starts absent, becomes present only when a
\* request() succeeds, and once present never changes again, whatever the
\* operation, request() included (looked at for a 1-based page and a page size
\* of at least 1).
C2_NeverReassigned ==
    /\ request_data = None
    /\ [][ /\ ((request_data.some /\ page >= 1 /\ per_page >= 1)
                  => request_data' = request_data)
           /\ ((~request_data.some /\ request_data'.some)
                  => (lastOp'.op = "request" /\ result'.tag = "Ok")) ]_vars

\* C2 amended: the payload slot starts absent, is never cleared, and changes
\* only when a request() succeeds, which stores the payload it fetched (a
\* second request() replaces the payload of the first).
C2_ChangedOnlyByRequest ==
    /\ request_data = None
    /\ [][ (request_data' # request_data)
           => (/\ request_data'.some
               /\ lastOp'.op = "request"
               /\ result'.tag = "Ok"
               /\ requests' = requests + 1) ]_vars

C2_Witness ==
    /\ requests = 2
    /\ lastOp.op = "request"
    /\ request_data.some
    /\ request_data.v # <<>>

\* C3: on a fetched instance a parse() issues no HTTP request and leaves the
\* payload as it was (so the instance stays fetched), and a parse() that
\* directly follows a parse() returns the same result.
C3_ParseIdempotent ==
    [][ (request_data.some /\ lastOp'.op = "parse")
        => (/\ request_data' = request_data
            /\ sent' = 0
            /\ (lastOp.op = "parse" => result' = result)) ]_vars

C3_Witness ==
    /\ kind = "Nozomi"
    /\ lastOp.op = "parse"
    /\ request_data.some
    /\ result.tag = "Ok"
    /\ Len(result.v) = 2

\* C4: Nozomi parse() of a payload b returns the identifiers
\* b[4k+1]*65536 + b[4k+2]*256 + b[4k+3] of the complete records k, in
\* descending order, and no first byte b[4k] changes the result.
C4_DecodeSortedDescending ==
    (kind = "Nozomi" /\ lastOp.op = "parse" /\ request_data.some)
    => LET b == request_data.v
           n == Len(b) \div 4
           ids == [k \in 1..n |-> b[4 * (k - 1) + 2] * 65536
                                  + b[4 * (k - 1) + 3] * 256
                                  + b[4 * (k - 1) + 4]]
           Count(q, x) == Cardinality({i \in 1..Len(q) : q[i] = x})
       IN /\ result.tag = "Ok"
          /\ Len(result.v) = n
          /\ \A i \in 1..(n - 1) : result.v[i] >= result.v[i + 1]
          /\ \A i \in 1..n : Count(result.v, ids[i]) = Count(ids, ids[i])
          /\ \A p \in {q \in 1..Len(b) : q % 4 = 1} : \A x \in ByteVals :
                NozomiParseData(Some([b EXCEPT ![p] = x])) = result

C4_Witness ==
    /\ kind = "Nozomi"
    /\ lastOp.op = "parse"
    /\ request_data.some
    /\ Len(request_data.v) = 8
    /\ request_data.v[1] # 0
    /\ request_data.v[2] < request_data.v[6]
    /\ result.tag = "Ok"
    /\ Len(result.v) = 2
    /\ result.v[1] > result.v[2]

\* C5: with page >= 1 and page size >= 1, when the index held at least
\* page * page_size records at the request and the server answered the range
\* the request asked for, the parse() after the request() returns exactly
\* page_size identifiers.
C5_FullPage ==
    [][ (/\ kind = "Nozomi" /\ page >= 1 /\ per_page >= 1
         /\ lastOp.op = "request" /\ result.tag = "Ok"
         /\ Len(index) >= page * per_page * 4
         /\ lastOp'.op = "parse")
        => (result'.tag = "Ok" /\ Len(result'.v) = per_page) ]_vars

C5_Witness ==
    /\ kind = "Nozomi"
    /\ page = 2
    /\ per_page = 1
    /\ lastOp.op = "parse"
    /\ Len(index) = 8
    /\ request_data = Some(SubSeq(index, 5, 8))
    /\ result.tag = "Ok"
    /\ Len(result.v) = 1

\* C6: with page >= 1 and page size >= 1, when the byte range reaches past the
\* end of the index, request() does not panic and the parse() after it
\* succeeds with one identifier per complete record of the payload, which is
\* at most page_size identifiers.
C6_ShortPage ==
    [][ /\ (/\ kind = "Nozomi" /\ page >= 1 /\ per_page >= 1
            /\ lastOp.op = "request" /\ result.tag = "Ok"
            /\ Len(index) < page * per_page * 4
            /\ lastOp'.op = "parse")
           => (/\ result'.tag = "Ok"
               /\ Len(result'.v) <= per_page
               /\ Len(result'.v) = Len(request_data.v) \div 4)
        /\ (/\ kind = "Nozomi" /\ page >= 1 /\ per_page >= 1
            /\ Len(index) < page * per_page * 4
            /\ lastOp'.op = "request")
           => result'.tag # "Panic" ]_vars

C6_Witness ==
    /\ kind = "Nozomi"
    /\ page = 1
    /\ per_page = 2
    /\ lastOp.op = "parse"
    /\ request_data.some
    /\ Len(request_data.v) = 7
    /\ result.tag = "Ok"
    /\ Len(result.v) = 1

C8_CharactersAbsentWhenEmpty ==
    (/\ lastOp = Event("parse_metadata", "Characters")
     /\ request_data.some
     /\ request_data.v.table
     /\ Len(request_data.v.rows) = 1
     /\ Len(request_data.v.rows[1]) = 2
     /\ request_data.v.rows[1][1] = LabelCell("Characters"))
    => LET region == request_data.v.rows[1][2]
           uls == {i \in 1..Len(region) : region[i].tag = "ul"}
           items == region[CHOOSE i \in uls : \A k \in uls : i <= k].items
       IN IF \A i \in uls : region[i].items = <<>>
          THEN /\ result.tag = "Ok"
               /\ result.v = Metadata("Characters", None)
          ELSE (items # <<>> /\ \A k \in 1..Len(items) : items[k] # <<>>)
               => (/\ result.tag = "Ok"
                   /\ result.v = Metadata("Characters", Some([k \in 1..Len(items) |-> items[k][1]])))

\* C9: a missing structural element never panics: Gallery parse() returns a
\* StructureError when the metadata table is absent, Gallery url() returns a
\* ResolutionError (or the NetworkError of its GET) when the redirect body has
\* no anchor, and neither of them, nor request(), ends in a panic.
C9_NoPanicOnMissingStructure ==
    (kind = "Gallery" /\ lastOp.op \in {"parse", "url", "request"})
    => /\ result.tag # "Panic"
       /\ (lastOp.op = "parse" /\ request_data.some /\ ~request_data.v.table)
             => (result.tag = "Err" /\ result.v = "StructureError")
       /\ (lastOp.op = "url" /\ redirect = "no_anchor")
             => (result.tag = "Err" /\ result.v \in {"ResolutionError", NetworkError.v})

\* C10: no field of a record returned by Gallery parse(), and no field
\* returned by parse_metadata, is populated with an empty list.
C10_NoEmptyList ==
    (kind = "Gallery" /\ result.tag = "Ok")
    => /\ (lastOp.op = "parse")
             => /\ ~(result.v.characters.value.some /\ result.v.characters.value.v = <<>>)
                /\ ~(result.v.groups.value.some /\ result.v.groups.value.v = <<>>)
       /\ (lastOp.op = "parse_metadata")
             => ~(result.v.value.some /\ result.v.value.v = <<>>)

====
